---- MODULE Spec2Model ----
(***************************************************************************)
(* Model of autofill_description.py: the pipeline that fetches a pull      *)
(* request, its comments, commits and changed files from the host, builds  *)
(* and trims a prompt, asks the generation backend for a description and   *)
(* posts it as a comment on the pull request.                              *)
(*                                                                         *)
(* Python strings are TLA+ strings; indices and slices are 0-based as in   *)
(* Python.  Python values of mixed type (None, int, str, list, dict) are   *)
(* wrapped in one-field records so that they can be compared.              *)
(***************************************************************************)
EXTENDS Integers, Sequences, FiniteSets, TLC

VARIABLES
    \* ---- the host (source-control API) and the action's configuration
    hostPR,                  \* the pull request object the host serves
    hostCommits,             \* the commit messages of the pull request, in host order
    hostFileCount,           \* how many changed files the pull request has
    comments,                \* bodies of the comments on the pull request, in order
    hostFaulty,              \* whether the host / backend may answer with an error
    allowed_users,           \* INPUT_ALLOWED_USERS after the split: a list, empty when unset
    serialised,              \* whether the workflow's runs are serialised (never overlap)
    pending,                 \* runs that have not been triggered yet
    \* ---- one invocation of main() per run
    pc,                      \* where the run is in main()
    pull_request_data,       \* main's local: PyDict(..) or PyNone
    author_result,           \* what check_pull_request_author_... returned (main drops it)
    comments_data,           \* the comment list check_if_description_... got: PyList or PyNone
    already_result,          \* what check_if_description_... returned (main drops it)
    current_description,     \* main's local
    commit_messages,         \* main's local: PyStr(..) or PyInt(1)
    page_num,                \* loop variable of get_pull_request_files
    pull_request_files,      \* main's local: PyList(..) or PyInt(1)
    prompt,                  \* the prompt handed to send_prompt_to_openai
    openai_response,         \* the text the generation backend answered with
    generated_pr_description,\* the body handed to write_description_as_comment
    write_result,            \* what write_description_as_comment returned (main drops it)
    calls,                   \* the external calls the run has made, in order
    exit_code                \* the process's exit status; -1 while it runs

hostVars == <<hostPR, hostCommits, hostFileCount, hostFaulty, allowed_users, serialised>>
runVars  == <<pc, pull_request_data, author_result, comments_data, already_result,
              current_description, commit_messages, page_num, pull_request_files,
              prompt, generated_pr_description, openai_response,
                   write_result, calls, exit_code>>
vars     == <<hostVars, comments, pending, runVars>>

\* ------------------------------------------------------------------ bounds

NumRuns == 2

Runs == 1..NumRuns

\* ------------------------------------------------------- program constants

codes_ok == 200

codes_created == 201

max_allowed_tokens == 2048

characters_per_token == 4

per_page == 30

page_range_stop == 11

autogenerated_title == "# Auto-generated description:"

\* ------------------------------------------------------------ Python values

PyNone == [none |-> TRUE]

PyInt(n) == [int |-> n]

PyStr(s) == [str |-> s]

PyList(l) == [list |-> l]

PyDict(d) == [dict |-> d]

IsNone(v) == "none" \in DOMAIN v

IsInt(v) == "int" \in DOMAIN v

IsList(v) == "list" \in DOMAIN v

\* str(v) as an f-string renders it: an int in decimal, a string as itself
Format(v) == IF IsInt(v) THEN ToString(v.int) ELSE v.str

Min(S) == CHOOSE x \in S : \A y \in S : x <= y

\* s.find(sub, start): the lowest 0-based index >= start where sub occurs, else -1
Find(s, sub, start) ==
    LET hits == {i \in start..(Len(s) - Len(sub)) : SubSeq(s, i + 1, i + Len(sub)) = sub}
    IN  IF hits = {} THEN -1 ELSE Min(hits)

\* sub in s
Contains(s, sub) == Find(s, sub, 0) # -1

\* s[a:b] for 0 <= a <= b
Slice(s, a, b) == SubSeq(s, a + 1, IF b > Len(s) THEN Len(s) ELSE b)

RECURSIVE Join(_, _)
\* sep.join(list)
Join(sep, l) ==
    IF l = <<>> THEN ""
    ELSE IF Len(l) = 1 THEN l[1]
    ELSE l[1] \o sep \o Join(sep, Tail(l))

\* ------------------------------------------------------------ pure functions

\* get_current_pr_description with the closing "#" searched from the marker itself
get_current_pr_description_end_at_marker(entire_description) ==
    LET description_start_index == Find(entire_description, "# Description", 0)
        description_end_index ==
            Find(entire_description, "#", description_start_index)
    IN  IF description_start_index = -1 THEN entire_description
        ELSE IF description_end_index = -1 THEN entire_description
        ELSE Slice(entire_description, description_start_index, description_end_index)

\* get_current_pr_description applied to the body string
get_current_pr_description(entire_description) ==
    LET description_start_index == Find(entire_description, "# Description", 0)
        description_end_index ==
            Find(entire_description, "#", description_start_index + 1)
    IN  IF description_start_index = -1 THEN entire_description
        ELSE IF description_end_index = -1 THEN entire_description
        ELSE Slice(entire_description, description_start_index, description_end_index)

\* The f-string that opens the prompt
PromptHead(pull_request_title, description, messages) ==
    "\nPlease rewrite the current pull request description focusing on the motivation behind the changes contained in the pull request and why they improve the project. Go straight to the point.\n"
    \o "The title of the pull request is: " \o pull_request_title \o " \n\n"
    \o "The current description is: \n " \o description \o " \n\n"
    \o "This pull request contains the following commits (use them to create a better description): \n "
    \o Format(messages) \o "\n\n"
    \o "And the following changes took place: \n\n"

\* An entry without a patch given a block with an empty patch
FileBlock_placeholder(pull_request_file) ==
    "Changes in file " \o pull_request_file.filename \o ": \n"
    \o (IF "patch" \in DOMAIN pull_request_file THEN pull_request_file.patch ELSE "")
    \o "\n"

\* What one entry of the file list adds to the prompt
FileBlock(pull_request_file) ==
    IF "patch" \notin DOMAIN pull_request_file THEN ""
    ELSE "Changes in file " \o pull_request_file.filename \o ": \n"
         \o pull_request_file.patch \o "\n"

RECURSIVE FileBlocks(_)
\* The loop of construct_prompt over the file list: the blocks of the entries, in the
\* list's order (the list is halved to keep the evaluation shallow)
FileBlocks(files) ==
    IF files = <<>> THEN ""
    ELSE IF Len(files) = 1 THEN FileBlock(files[1])
    ELSE FileBlocks(SubSeq(files, 1, Len(files) \div 2))
         \o FileBlocks(SubSeq(files, Len(files) \div 2 + 1, Len(files)))

construct_prompt(pull_request_title, description, messages, files) ==
    PromptHead(pull_request_title, description, messages) \o FileBlocks(files)

max_allowed_characters == max_allowed_tokens * characters_per_token

\* trim_prompt keeping the last characters instead of the first
trim_prompt_keeps_tail(p) ==
    IF Len(p) > max_allowed_characters
    THEN SubSeq(p, Len(p) - max_allowed_characters + 1, Len(p))
    ELSE p

trim_prompt(p) ==
    IF Len(p) > max_allowed_characters THEN Slice(p, 0, max_allowed_characters) ELSE p

\* add_title_to_description with a single newline after the title
add_title_to_description_one_newline(title, description) ==
    title \o "\n" \o description

add_title_to_description(title, description) ==
    title \o "\n\n" \o description

\* ------------------------------------------------------------------ the host

\* The i-th changed file as the host lists it; every fourth has no patch section
HostFile(i) ==
    IF i % 4 = 2
    THEN [filename |-> "assets/img" \o ToString(i) \o ".png"]
    ELSE [filename |-> "src/mod" \o ToString(i) \o ".py",
          patch |-> "@@ -1,2 +1,2 @@\n-old line " \o ToString(i) \o "\n+new line " \o ToString(i)]

\* The host's answer to GET .../files?page={page}&per_page=30
HostFilesPage(page) ==
    LET first == (page - 1) * per_page + 1
        last == IF page * per_page < hostFileCount THEN page * per_page ELSE hostFileCount
    IN  [i \in 1..(IF last >= first THEN last - first + 1 ELSE 0) |-> HostFile(first + i - 1)]

\* Statuses a GET may come back with
GetStatuses == IF hostFaulty THEN {codes_ok, 500} ELSE {codes_ok}

\* Statuses the comment POST may come back with
PostStatuses == IF hostFaulty THEN {codes_created, 403} ELSE {codes_created}

\* Texts the generation backend may answer with (never empty)
GeneratedTexts ==
    { "This change enables X so that the build catches errors early.",
      "Fixes Y.\nWithout it the job fails on empty input." }

Call(op, page, status) == [op |-> op, page |-> page, status |-> status]

Range(l) == {l[i] : i \in DOMAIN l}

\* An uncaught exception: the interpreter prints the traceback and exits with 1
PyRaise == [raise |-> TRUE]

IsRaise(v) == "raise" \in DOMAIN v

\* ------------------------------------------------------------ steps of main

Log(r, call) == calls' = [calls EXCEPT ![r] = Append(@, call)]

Goto(r, label) == pc' = [pc EXCEPT ![r] = label]

\* The run dies on an uncaught exception
Crash(r) ==
    /\ pc' = [pc EXCEPT ![r] = "done"]
    /\ exit_code' = [exit_code EXCEPT ![r] = 1]

\* The workflow starts the next run of the action
Trigger(r) ==
    /\ pending # {}
    /\ r = Min(pending)
    /\ pc[r] = "idle"
    /\ serialised => \A q \in Runs \ {r} : pc[q] \in {"idle", "done"}
    /\ pending' = pending \ {r}
    /\ Goto(r, "get_pull_request_data")
    /\ UNCHANGED <<hostVars, comments, pull_request_data, author_result, comments_data,
                   already_result, current_description, commit_messages, page_num,
                   pull_request_files, prompt, generated_pr_description, openai_response,
                   write_result,
                   calls, exit_code>>

get_pull_request_data(r) ==
    /\ pc[r] = "get_pull_request_data"
    /\ \E status \in GetStatuses :
        /\ Log(r, Call("GET pull", 0, status))
        /\ pull_request_data' =
              [pull_request_data EXCEPT
                  ![r] = IF status # codes_ok THEN PyNone ELSE PyDict(hostPR)]
    /\ Goto(r, "check_pull_request_author")
    /\ UNCHANGED <<hostVars, comments, pending, author_result, comments_data,
                   already_result, current_description, commit_messages, page_num,
                   pull_request_files, prompt, generated_pr_description, openai_response,
                   write_result,
                   exit_code>>

\* The function's result: 0, None, or the exception of subscripting None
check_pull_request_author_is_allowed_to_trigger_action(data, allowed) ==
    IF allowed # <<>>
    THEN IF IsNone(data) THEN PyRaise
         ELSE IF data.dict.user.login \notin Range(allowed) THEN PyInt(0)
         ELSE PyNone
    ELSE PyNone

\* main going from the author check straight to the title, the comments never fetched
main_check_author_skips_comments(r) ==
    /\ pc[r] = "check_pull_request_author"
    /\ LET res == check_pull_request_author_is_allowed_to_trigger_action(
                      pull_request_data[r], allowed_users)
       IN  IF IsRaise(res)
           THEN /\ Crash(r)
                /\ UNCHANGED author_result
           ELSE /\ author_result' = [author_result EXCEPT ![r] = res]
                /\ Goto(r, "get_current_pr_description")
                /\ UNCHANGED exit_code
    /\ UNCHANGED <<hostVars, comments, pending, pull_request_data, comments_data,
                   already_result, current_description, commit_messages, page_num,
                   pull_request_files, prompt, generated_pr_description, openai_response,
                   write_result, calls>>

\* main, lines 305-307: the call, whose result main does not look at
main_check_author(r) ==
    /\ pc[r] = "check_pull_request_author"
    /\ LET res == check_pull_request_author_is_allowed_to_trigger_action(
                      pull_request_data[r], allowed_users)
       IN  IF IsRaise(res)
           THEN /\ Crash(r)
                /\ UNCHANGED author_result
           ELSE /\ author_result' = [author_result EXCEPT ![r] = res]
                /\ Goto(r, "check_if_description_has_already_been_autogenerated")
                /\ UNCHANGED exit_code
    /\ UNCHANGED <<hostVars, comments, pending, pull_request_data, comments_data,
                   already_result, current_description, commit_messages, page_num,
                   pull_request_files, prompt, generated_pr_description, openai_response,
                   write_result,
                   calls>>

\* The loop comparing each body with the title instead of searching it
TitleInComments_equal(data, title) ==
    IF \E i \in DOMAIN data : data[i] = title THEN PyInt(1) ELSE PyNone

\* The loop over comments_data: 1 at the first comment holding the title, else None
TitleInComments(data, title) ==
    IF \E i \in DOMAIN data : Contains(data[i], title) THEN PyInt(1) ELSE PyNone

\* The check returning None, as get_pull_request_data does, when the fetch fails
check_if_description_returns_none_on_failure(r) ==
    /\ pc[r] = "check_if_description_has_already_been_autogenerated"
    /\ \E status \in GetStatuses :
        /\ Log(r, Call("GET comments", 0, status))
        /\ IF status # codes_ok
           THEN /\ comments_data' = [comments_data EXCEPT ![r] = PyNone]
                /\ already_result' = [already_result EXCEPT ![r] = PyNone]
           ELSE /\ comments_data' = [comments_data EXCEPT ![r] = PyList(comments)]
                /\ already_result' =
                      [already_result EXCEPT
                          ![r] = TitleInComments(comments, autogenerated_title)]
    /\ Goto(r, "get_current_pr_description")
    /\ UNCHANGED <<hostVars, comments, pending, pull_request_data, author_result,
                   current_description, commit_messages, page_num, pull_request_files,
                   prompt, generated_pr_description, openai_response,
                   write_result, exit_code>>

\* The call at line 308, whose result main does not look at
check_if_description_has_already_been_autogenerated(r) ==
    /\ pc[r] = "check_if_description_has_already_been_autogenerated"
    /\ \E status \in GetStatuses :
        /\ Log(r, Call("GET comments", 0, status))
        /\ IF status # codes_ok
           THEN /\ comments_data' = [comments_data EXCEPT ![r] = PyNone]
                /\ already_result' = [already_result EXCEPT ![r] = PyInt(1)]
           ELSE /\ comments_data' = [comments_data EXCEPT ![r] = PyList(comments)]
                /\ already_result' =
                      [already_result EXCEPT
                          ![r] = TitleInComments(comments, autogenerated_title)]
    /\ Goto(r, "get_current_pr_description")
    /\ UNCHANGED <<hostVars, comments, pending, pull_request_data, author_result,
                   current_description, commit_messages, page_num, pull_request_files,
                   prompt, generated_pr_description, openai_response,
                   write_result, exit_code>>

\* main, lines 309-310: the title and the current description out of the data
main_current_description(r) ==
    /\ pc[r] = "get_current_pr_description"
    /\ IF IsNone(pull_request_data[r])
       THEN /\ Crash(r)
            /\ UNCHANGED current_description
       ELSE /\ current_description' =
                  [current_description EXCEPT
                      ![r] = get_current_pr_description(pull_request_data[r].dict.body)]
            /\ Goto(r, "get_commit_messages")
            /\ UNCHANGED exit_code
    /\ UNCHANGED <<hostVars, comments, pending, pull_request_data, author_result,
                   comments_data, already_result, commit_messages, page_num,
                   pull_request_files, prompt, generated_pr_description, openai_response,
                   write_result,
                   calls>>

get_commit_messages(r) ==
    /\ pc[r] = "get_commit_messages"
    /\ \E status \in GetStatuses :
        /\ Log(r, Call("GET commits", 0, status))
        /\ commit_messages' =
              [commit_messages EXCEPT
                  ![r] = IF status # codes_ok THEN PyInt(1)
                         ELSE PyStr(Join("\n", hostCommits))]
    /\ Goto(r, "get_pull_request_files")
    /\ UNCHANGED <<hostVars, comments, pending, pull_request_data, author_result,
                   comments_data, already_result, current_description, page_num,
                   pull_request_files, prompt, generated_pr_description, openai_response,
                   write_result,
                   exit_code>>

\* The chunk put in front of the list instead of at its end
extend_in_front(files, chunk) == chunk \o files

\* pull_request_files.extend(pull_files_chunk)
extend(files, chunk) == files \o chunk

\* The range taken to include its stop value
in_range_inclusive(page) == 1 <= page /\ page <= page_range_stop

\* Whether the page number is one that range(1, 11) yields
in_range(page) == 1 <= page /\ page < page_range_stop

\* The page loop returning what it has collected when a page fails
get_pull_request_files_keeps_partial(r) ==
    /\ pc[r] = "get_pull_request_files"
    /\ \E status \in GetStatuses :
        /\ Log(r, Call("GET files", page_num[r], status))
        /\ IF status # codes_ok
           THEN /\ Goto(r, "send_prompt_to_openai")
                /\ UNCHANGED <<pull_request_files, page_num>>
           ELSE LET pull_files_chunk == HostFilesPage(page_num[r])
                IN  IF Len(pull_files_chunk) = 0
                    THEN /\ Goto(r, "send_prompt_to_openai")
                         /\ UNCHANGED <<pull_request_files, page_num>>
                    ELSE /\ pull_request_files' =
                               [pull_request_files EXCEPT
                                   ![r] = PyList(extend(@.list, pull_files_chunk))]
                         /\ IF in_range(page_num[r] + 1)
                            THEN /\ page_num' = [page_num EXCEPT ![r] = @ + 1]
                                 /\ UNCHANGED pc
                            ELSE /\ Goto(r, "send_prompt_to_openai")
                                 /\ UNCHANGED page_num
    /\ UNCHANGED <<hostVars, comments, pending, pull_request_data, author_result,
                   comments_data, already_result, current_description, commit_messages,
                   prompt, generated_pr_description, openai_response,
                   write_result, exit_code>>

\* One iteration of the page loop: the request for page page_num and what follows it
get_pull_request_files(r) ==
    /\ pc[r] = "get_pull_request_files"
    /\ \E status \in GetStatuses :
        /\ Log(r, Call("GET files", page_num[r], status))
        /\ IF status # codes_ok
           THEN /\ pull_request_files' = [pull_request_files EXCEPT ![r] = PyInt(1)]
                /\ Goto(r, "send_prompt_to_openai")
                /\ UNCHANGED page_num
           ELSE LET pull_files_chunk == HostFilesPage(page_num[r])
                IN  IF Len(pull_files_chunk) = 0
                    THEN /\ Goto(r, "send_prompt_to_openai")
                         /\ UNCHANGED <<pull_request_files, page_num>>
                    ELSE /\ pull_request_files' =
                               [pull_request_files EXCEPT
                                   ![r] = PyList(extend(@.list, pull_files_chunk))]
                         /\ IF in_range(page_num[r] + 1)
                            THEN /\ page_num' = [page_num EXCEPT ![r] = @ + 1]
                                 /\ UNCHANGED pc
                            ELSE /\ Goto(r, "send_prompt_to_openai")
                                 /\ UNCHANGED page_num
    /\ UNCHANGED <<hostVars, comments, pending, pull_request_data, author_result,
                   comments_data, already_result, current_description, commit_messages,
                   prompt, generated_pr_description, openai_response,
                   write_result, exit_code>>

\* The call of the backend tried again after a failure instead of raising
send_prompt_to_openai_retries(r) ==
    /\ pc[r] = "send_prompt_to_openai"
    /\ IF ~IsList(pull_request_files[r])
       THEN /\ Crash(r)
            /\ UNCHANGED <<prompt, openai_response, calls>>
       ELSE /\ prompt' =
                  [prompt EXCEPT
                      ![r] = trim_prompt(construct_prompt(
                                 pull_request_data[r].dict.title, current_description[r],
                                 commit_messages[r], pull_request_files[r].list))]
            /\ \/ \E text \in GeneratedTexts :
                    /\ Log(r, Call("openai", 0, codes_ok))
                    /\ openai_response' = [openai_response EXCEPT ![r] = text]
                    /\ Goto(r, "write_description_as_comment")
                    /\ UNCHANGED exit_code
               \/ /\ hostFaulty
                  /\ Log(r, Call("openai", 0, 500))
                  /\ UNCHANGED <<pc, exit_code, openai_response>>
    /\ UNCHANGED <<hostVars, comments, pending, pull_request_data, author_result,
                   comments_data, already_result, current_description, commit_messages,
                   page_num, pull_request_files, generated_pr_description, write_result>>

\* main, lines 314-326: construct_prompt, trim_prompt and the call of the backend
send_prompt_to_openai(r) ==
    /\ pc[r] = "send_prompt_to_openai"
    /\ IF ~IsList(pull_request_files[r])
       THEN \* construct_prompt iterates over the int 1: TypeError
            /\ Crash(r)
            /\ UNCHANGED <<prompt, openai_response, calls>>
       ELSE /\ prompt' =
                  [prompt EXCEPT
                      ![r] = trim_prompt(construct_prompt(
                                 pull_request_data[r].dict.title, current_description[r],
                                 commit_messages[r], pull_request_files[r].list))]
            /\ \/ \E text \in GeneratedTexts :
                    /\ Log(r, Call("openai", 0, codes_ok))
                    /\ openai_response' = [openai_response EXCEPT ![r] = text]
                    /\ Goto(r, "write_description_as_comment")
                    /\ UNCHANGED exit_code
               \/ \* the client library raises on any failure of the backend
                  /\ hostFaulty
                  /\ Log(r, Call("openai", 0, 500))
                  /\ Crash(r)
                  /\ UNCHANGED openai_response
    /\ UNCHANGED <<hostVars, comments, pending, pull_request_data, author_result,
                   comments_data, already_result, current_description, commit_messages,
                   page_num, pull_request_files, generated_pr_description, write_result>>

\* The description written into the pull request's body instead of a new comment
write_description_into_body(r) ==
    /\ pc[r] = "write_description_as_comment"
    /\ LET body == add_title_to_description(autogenerated_title, openai_response[r])
       IN  /\ generated_pr_description' = [generated_pr_description EXCEPT ![r] = body]
           /\ \E status \in PostStatuses :
                /\ Log(r, Call("POST comment", 0, status))
                /\ IF status # codes_created
                   THEN /\ write_result' = [write_result EXCEPT ![r] = PyInt(1)]
                        /\ UNCHANGED hostPR
                   ELSE /\ write_result' = [write_result EXCEPT ![r] = PyNone]
                        /\ hostPR' = [hostPR EXCEPT !.body = body]
    /\ pc' = [pc EXCEPT ![r] = "done"]
    /\ exit_code' = [exit_code EXCEPT ![r] = 0]
    /\ UNCHANGED <<hostCommits, hostFileCount, hostFaulty, allowed_users, serialised,
                   comments, pending, pull_request_data, author_result, comments_data,
                   already_result, current_description, commit_messages, page_num,
                   pull_request_files, prompt, openai_response>>

\* main, lines 328-332 and the exit: the title is added, the comment is posted, and
\* main returns None whatever the post returned, so the process exits with 0
write_description_as_comment(r) ==
    /\ pc[r] = "write_description_as_comment"
    /\ LET body == add_title_to_description(autogenerated_title, openai_response[r])
       IN  /\ generated_pr_description' = [generated_pr_description EXCEPT ![r] = body]
           /\ \E status \in PostStatuses :
                /\ Log(r, Call("POST comment", 0, status))
                /\ IF status # codes_created
                   THEN /\ write_result' = [write_result EXCEPT ![r] = PyInt(1)]
                        /\ UNCHANGED comments
                   ELSE /\ write_result' = [write_result EXCEPT ![r] = PyNone]
                        /\ comments' = Append(comments, body)
    /\ pc' = [pc EXCEPT ![r] = "done"]
    /\ exit_code' = [exit_code EXCEPT ![r] = 0]
    /\ UNCHANGED <<hostVars, pending, pull_request_data, author_result, comments_data,
                   already_result, current_description, commit_messages, page_num,
                   pull_request_files, prompt, openai_response>>

main(r) ==
    \/ get_pull_request_data(r)
    \/ main_check_author(r)
    \/ check_if_description_has_already_been_autogenerated(r)
    \/ main_current_description(r)
    \/ get_commit_messages(r)
    \/ get_pull_request_files(r)
    \/ send_prompt_to_openai(r)
    \/ write_description_as_comment(r)

Next == \E r \in Runs : Trigger(r) \/ main(r)

\* ------------------------------------------------------------ initial states

Bodies ==
    { "",
      "Plain text, no section markers.",
      "intro # Description body text # Footer",
      "# Description\nEnable the feature." }

CommitLists == { <<"add X">>, <<"add X", "fix typo in Y">> }

FileCounts == { 0, 1, 60, 301 }

CommentLists ==
    { <<>>,
      <<"LGTM">>,
      <<"LGTM", "# Auto-generated description:\n\nAn earlier description.">> }

AllowLists == { <<>>, <<"alice", "bob">>, <<"bob", "carol">> }

PullRequests == { [title |-> "Enable X", body |-> b, user |-> [login |-> "alice"]] : b \in Bodies }

RunInit ==
    /\ pc = [r \in Runs |-> "idle"]
    /\ pull_request_data = [r \in Runs |-> PyNone]
    /\ author_result = [r \in Runs |-> PyNone]
    /\ comments_data = [r \in Runs |-> PyNone]
    /\ already_result = [r \in Runs |-> PyNone]
    /\ current_description = [r \in Runs |-> ""]
    /\ commit_messages = [r \in Runs |-> PyNone]
    /\ page_num = [r \in Runs |-> 1]
    /\ pull_request_files = [r \in Runs |-> PyList(<<>>)]
    /\ prompt = [r \in Runs |-> ""]
    /\ openai_response = [r \in Runs |-> ""]
    /\ generated_pr_description = [r \in Runs |-> ""]
    /\ write_result = [r \in Runs |-> PyNone]
    /\ calls = [r \in Runs |-> <<>>]
    /\ exit_code = [r \in Runs |-> -1]

\* One run of the action against any of the pull requests, the host free to fail
Init ==
    /\ hostPR \in PullRequests
    /\ hostCommits \in CommitLists
    /\ hostFileCount \in FileCounts
    /\ comments \in CommentLists
    /\ allowed_users \in AllowLists
    /\ hostFaulty = TRUE
    /\ serialised = TRUE
    /\ pending = {1}
    /\ RunInit

Spec == Init /\ [][Next]_vars

\* Successive runs of the action on one pull request, each ending before the next
\* starts; nobody else comments on the pull request
InitSeq ==
    /\ hostPR \in { pr \in PullRequests : pr.body = "" }
    /\ hostCommits = <<"add X">>
    /\ hostFileCount \in { 0, 1 }
    /\ comments \in { <<>>, <<"LGTM">> }
    /\ allowed_users \in { <<>>, <<"alice", "bob">> }
    /\ hostFaulty \in BOOLEAN
    /\ serialised = TRUE
    /\ pending = Runs
    /\ RunInit

SpecSeq == InitSeq /\ [][Next]_vars

BodyPieces == { "intro ", "# Description", " body text ", "#", " Footer" }

\* Bodies put together from at most three of the pieces, and the example of the text
DescriptionBodies ==
    { "", "intro # Description body text # Footer" }
    \cup BodyPieces
    \cup { a \o b : a \in BodyPieces, b \in BodyPieces }
    \cup { a \o b \o c : a \in BodyPieces, b \in BodyPieces, c \in BodyPieces }

\* One run on a healthy host, the pull request's body being any of DescriptionBodies
InitDesc ==
    /\ hostPR \in { [title |-> "Enable X", body |-> b, user |-> [login |-> "alice"]] :
                      b \in DescriptionBodies }
    /\ hostCommits = <<"add X">>
    /\ hostFileCount = 1
    /\ comments = <<>>
    /\ allowed_users = <<>>
    /\ hostFaulty = FALSE
    /\ serialised = TRUE
    /\ pending = {1}
    /\ RunInit

SpecDesc == InitDesc /\ [][Next]_vars

\* Runs of the action on one pull request that may overlap (nothing serialises them),
\* on a healthy host; the pull request has no sentinel comment to begin with
InitRace ==
    /\ hostPR \in { pr \in PullRequests : pr.body = "" }
    /\ hostCommits = <<"add X">>
    /\ hostFileCount \in { 0, 1 }
    /\ comments \in { <<>>, <<"LGTM">> }
    /\ allowed_users = <<>>
    /\ hostFaulty = FALSE
    /\ serialised = FALSE
    /\ pending = Runs
    /\ RunInit

SpecRace == InitRace /\ [][Next]_vars

\* ----------------------------------------------------- what the claims speak of

\* The positions in the run's call log of the calls to one endpoint
CallsTo(r, op) == {i \in DOMAIN calls[r] : calls[r][i].op = op}

Succeeded(call) ==
    IF call.op = "POST comment" THEN call.status = codes_created
    ELSE call.status = codes_ok

\* Every external call the run has made so far succeeded
AllSucceeded(r) == \A i \in DOMAIN calls[r] : Succeeded(calls[r][i])

HasTitle(body) == Contains(body, autogenerated_title)

\* The run fetched the comment list and it held a comment with the sentinel title
FetchedSentinel(r) ==
    /\ IsList(comments_data[r])
    /\ \E i \in DOMAIN comments_data[r].list : HasTitle(comments_data[r].list[i])

\* The run fetched the pull request and its author is not in the configured allowlist
AuthorRefused(r) ==
    /\ allowed_users # <<>>
    /\ ~IsNone(pull_request_data[r])
    /\ pull_request_data[r].dict.user.login \notin Range(allowed_users)

\* ------------------------------------------------------------------- claims

\* C1: a run whose fetched comment list holds a comment with the sentinel title makes
\* no generation call and no publish call, and ends with outcome zero (stated here for
\* the runs in which no call fails).
C1_SentinelRunDoesNothing ==
    \A r \in Runs :
        (FetchedSentinel(r) /\ AllSucceeded(r)) =>
            /\ CallsTo(r, "openai") = {}
            /\ CallsTo(r, "POST comment") = {}
            /\ pc[r] = "done" => exit_code[r] = 0

\* C2: over successive non-overlapping runs on one pull request, at most one comment
\* ever holds the sentinel title.
C2_AtMostOneSentinelComment ==
    Cardinality({i \in DOMAIN comments : HasTitle(comments[i])}) <= 1

\* C3: with an allowlist configured and the author not in it, the run makes no
\* generation call, posts no comment, and ends with outcome zero (stated here for the
\* runs in which no call fails).
C3_RefusedAuthorStopsSilently ==
    \A r \in Runs :
        (AuthorRefused(r) /\ AllSucceeded(r)) =>
            /\ CallsTo(r, "openai") = {}
            /\ CallsTo(r, "POST comment") = {}
            /\ pc[r] = "done" => exit_code[r] = 0

\* C4: a finished run in which a required step failed (the pull-request, commits or
\* file fetch, the generation call or the comment post) has a non-zero outcome.
C4_FailedStepFailsRun ==
    \A r \in Runs :
        ( /\ pc[r] = "done"
          /\ \E i \in DOMAIN calls[r] :
                /\ calls[r][i].op \in {"GET pull", "GET commits", "GET files",
                                       "openai", "POST comment"}
                /\ ~Succeeded(calls[r][i]) )
        => exit_code[r] # 0

\* C5: after a failed fetch (pull request, comments, commits or a page of files) the
\* run makes no further external call.
C5_NoCallAfterFailedFetch ==
    \A r \in Runs :
        \A i \in DOMAIN calls[r] :
            ( /\ calls[r][i].op \in {"GET pull", "GET comments", "GET commits", "GET files"}
              /\ ~Succeeded(calls[r][i]) )
            => i = Len(calls[r])

\* The run is finished, none of its calls failed, and the comment list it fetched
\* held no comment with the sentinel title
CleanRunDone(r) ==
    /\ pc[r] = "done"
    /\ AllSucceeded(r)
    /\ IsList(comments_data[r])
    /\ ~FetchedSentinel(r)

\* C6: a finished run with no earlier sentinel comment and no failed call has called the
\* generation backend exactly once and then posted exactly one comment, whose body is
\* the sentinel title, two newlines, and the generated text unchanged.
C6_GenerateOncePostOnce ==
    \A r \in Runs :
        CleanRunDone(r) =>
            /\ Cardinality(CallsTo(r, "openai")) = 1
            /\ Cardinality(CallsTo(r, "POST comment")) = 1
            /\ \A i \in CallsTo(r, "openai") : \A j \in CallsTo(r, "POST comment") : i < j
            /\ openai_response[r] \in GeneratedTexts
            /\ generated_pr_description[r] =
                   "# Auto-generated description:" \o "\n\n" \o openai_response[r]
            /\ comments = Append(comments_data[r].list, generated_pr_description[r])

C6_Witness ==
    \E r \in Runs :
        /\ CleanRunDone(r)
        /\ comments_data[r].list = <<"LGTM">>
        /\ Len(comments) = 2
        /\ HasTitle(comments[2])

\* The prompt construct_prompt built in the run, before trimming
BuiltPrompt(r) ==
    construct_prompt(pull_request_data[r].dict.title, current_description[r],
                     commit_messages[r], pull_request_files[r].list)

\* C7: the prompt handed to the generation backend is the first min(L, 8192) characters
\* of the built prompt of length L: never longer than 8192, unchanged when L <= 8192.
C7_PromptIsPrefixOfBuilt ==
    \A r \in Runs :
        CallsTo(r, "openai") # {} =>
            LET built == BuiltPrompt(r)
                L == Len(built)
                n == IF L < 8192 THEN L ELSE 8192
            IN  /\ Len(prompt[r]) = n
                /\ Len(prompt[r]) <= 2048 * 4
                /\ prompt[r] = SubSeq(built, 1, n)
                /\ L <= 8192 => prompt[r] = built

C7_Witness ==
    \E r \in Runs :
        /\ CallsTo(r, "openai") # {}
        /\ Len(BuiltPrompt(r)) > 8192
        /\ Len(prompt[r]) = 8192

\* The run's requests for pages of files, in the order made
FilesCalls(r) == SelectSeq(calls[r], LAMBDA c : c.op = "GET files")

RECURSIVE HostPagesUpTo(_)
\* The host's pages 1..k one after the other
HostPagesUpTo(k) ==
    IF k = 0 THEN <<>> ELSE HostPagesUpTo(k - 1) \o HostFilesPage(k)

\* C8: the pages are requested as 1, 2, 3, ... in that order; a page that comes back
\* empty is the last one requested; the list collected is the entries of the requested
\* pages, page after page, each in the host's order (60 files: 60 entries, 3 requests).
C8_PagesInOrderUntilEmpty ==
    \A r \in Runs :
        LET F == FilesCalls(r)
        IN  /\ \A i \in DOMAIN F : F[i].page = i
            /\ \A i \in DOMAIN F :
                  (F[i].status = codes_ok /\ HostFilesPage(i) = <<>>) => i = Len(F)
            /\ IsList(pull_request_files[r]) =>
                  /\ pull_request_files[r].list = HostPagesUpTo(Len(F))
                  /\ \A i \in DOMAIN pull_request_files[r].list :
                        pull_request_files[r].list[i] = HostFile(i)
            /\ ( /\ IsList(pull_request_files[r])
                 /\ pc[r] # "get_pull_request_files"
                 /\ F # <<>>
                 /\ hostFileCount = 60 )
               => (Len(pull_request_files[r].list) = 60 /\ Len(F) = 3)

C8_Witness ==
    \E r \in Runs :
        /\ hostFileCount = 60
        /\ Len(FilesCalls(r)) = 3
        /\ pc[r] = "send_prompt_to_openai"
        /\ IsList(pull_request_files[r])
        /\ Len(pull_request_files[r].list) = 60
        /\ pull_request_files[r].list[31] = HostFile(31)

\* C9: at most 10 pages are requested and never page 11; after the tenth request the
\* function has returned; when all 10 pages came back non-empty it returned the
\* entries of those 10 pages (300 of them), not a failure.
C9_AtMostTenPages ==
    \A r \in Runs :
        LET F == FilesCalls(r)
        IN  /\ Len(F) <= 10
            /\ \A i \in DOMAIN F : F[i].page <= 10
            /\ Len(F) = 10 => pc[r] # "get_pull_request_files"
            /\ ( /\ Len(F) = 10
                 /\ \A i \in DOMAIN F : F[i].status = codes_ok /\ HostFilesPage(i) # <<>> )
               => /\ IsList(pull_request_files[r])
                  /\ pull_request_files[r].list = HostPagesUpTo(10)
                  /\ hostFileCount >= 300 => Len(pull_request_files[r].list) = 300

C9_Witness ==
    \E r \in Runs :
        /\ hostFileCount = 301
        /\ Len(FilesCalls(r)) = 10
        /\ \A i \in 1..10 : FilesCalls(r)[i].status = codes_ok
        /\ pc[r] = "send_prompt_to_openai"
        /\ IsList(pull_request_files[r])
        /\ Len(pull_request_files[r].list) = 300

\* The run has got past lines 309-310 of main with the pull request's data
DescriptionExtracted(r) ==
    /\ ~IsNone(pull_request_data[r])
    /\ pc[r] \in {"get_commit_messages", "get_pull_request_files", "send_prompt_to_openai",
                  "write_description_as_comment", "done"}

\* C10: when the body holds "# Description" and a "#" after the marker's first
\* character, the current description is the body from the first marker up to, not
\* including, that next "#"; when the body holds no "# Description" it is the body.
C10_DescriptionSection ==
    \A r \in Runs :
        DescriptionExtracted(r) =>
            LET body == pull_request_data[r].dict.body
                marks == {i \in 0..(Len(body) - 13) : SubSeq(body, i + 1, i + 13) = "# Description"}
            IN  /\ marks = {} => current_description[r] = body
                /\ marks # {} =>
                      LET s == Min(marks)
                          hashes == {j \in (s + 1)..(Len(body) - 1) : SubSeq(body, j + 1, j + 1) = "#"}
                      IN  hashes # {} => current_description[r] = SubSeq(body, s + 1, Min(hashes))
                /\ body = "intro # Description body text # Footer"
                      => current_description[r] = "# Description body text "

C10_Witness ==
    \E r \in Runs :
        /\ DescriptionExtracted(r)
        /\ pull_request_data[r].dict.body = "intro # Description body text # Footer"
        /\ current_description[r] = "# Description body text "

\* The 0-based places where "# Description" occurs in the body
MarkerPlaces(body) ==
    {i \in 0..(Len(body) - 13) : SubSeq(body, i + 1, i + 13) = "# Description"}

\* The 0-based places after place s where a "#" stands in the body
HashPlacesAfter(body, s) ==
    {j \in (s + 1)..(Len(body) - 1) : SubSeq(body, j + 1, j + 1) = "#"}

\* C11: when the body holds "# Description" and no "#" after the marker's first
\* character, the current description is the body from the marker to its end, without
\* the text before the marker.
C11_NoClosingMarkerToEnd ==
    \A r \in Runs :
        DescriptionExtracted(r) =>
            LET body == pull_request_data[r].dict.body
            IN  (MarkerPlaces(body) # {}
                 /\ HashPlacesAfter(body, Min(MarkerPlaces(body))) = {})
                => current_description[r] =
                       SubSeq(body, Min(MarkerPlaces(body)) + 1, Len(body))

\* bool(v) of a returned value: None and 0 are false, 1 is true
Truthy(v) == IsInt(v) /\ v.int # 0

\* The title stands somewhere in the body
TitleOccursIn(body) ==
    \E k \in 1..(Len(body) - Len("# Auto-generated description:") + 1) :
        SubSeq(body, k, k + Len("# Auto-generated description:") - 1)
            = "# Auto-generated description:"

\* C12: given a fetched comment list, the check reports true exactly when at least one
\* comment body holds the sentinel title as a substring; false for an empty list.
C12_AlreadyGeneratedIffTitleInComment ==
    \A r \in Runs :
        IsList(comments_data[r]) =>
            /\ Truthy(already_result[r])
                  <=> \E i \in DOMAIN comments_data[r].list :
                          TitleOccursIn(comments_data[r].list[i])
            /\ comments_data[r].list = <<>> => ~Truthy(already_result[r])

C12_Witness ==
    \E r \in Runs :
        /\ IsList(comments_data[r])
        /\ Len(comments_data[r].list) = 2
        /\ ~TitleOccursIn(comments_data[r].list[1])
        /\ TitleOccursIn(comments_data[r].list[2])
        /\ already_result[r] = PyInt(1)

RECURSIVE PatchBlocks(_, _, _)
\* One "Changes in file ..." block for each of the entries from..to of a list of
\* entries that all have a patch, in the list's order
PatchBlocks(patched, from, to) ==
    IF from > to THEN ""
    ELSE IF from = to
    THEN "Changes in file " \o patched[from].filename \o ": \n" \o patched[from].patch \o "\n"
    ELSE PatchBlocks(patched, from, (from + to) \div 2)
         \o PatchBlocks(patched, (from + to) \div 2 + 1, to)

\* The prompt as the text describes it: preamble, title, current description, commit
\* messages, then the blocks of the entries that carry a patch, in the list's order
DescribedPrompt(r) ==
    "\nPlease rewrite the current pull request description focusing on the motivation behind the changes contained in the pull request and why they improve the project. Go straight to the point.\nThe title of the pull request is: "
    \o pull_request_data[r].dict.title
    \o " \n\nThe current description is: \n "
    \o current_description[r]
    \o " \n\nThis pull request contains the following commits (use them to create a better description): \n "
    \o Format(commit_messages[r])
    \o "\n\nAnd the following changes took place: \n\n"
    \o LET patched == SelectSeq(pull_request_files[r].list, LAMBDA f : "patch" \in DOMAIN f)
       IN  PatchBlocks(patched, 1, Len(patched))

\* C13: the prompt's file section is, in input order, exactly one block
\* "Changes in file {filename}: \n{patch}\n" per file change that carries a patch, after
\* the title, the current description and the commit messages; a file change without a
\* patch adds nothing.  (The prompt sent is the built one cut to 8192 characters.)
C13_OneBlockPerPatchedFile ==
    \A r \in Runs :
        CallsTo(r, "openai") # {} =>
            LET described == DescribedPrompt(r)
            IN  /\ Len(prompt[r]) <= Len(described)
                /\ prompt[r] = SubSeq(described, 1, Len(prompt[r]))
                /\ Len(described) <= 8192 => prompt[r] = described
                /\ BuiltPrompt(r) = described

C13_Witness ==
    \E r \in Runs :
        /\ CallsTo(r, "openai") # {}
        /\ Len(pull_request_files[r].list) = 60
        /\ "patch" \in DOMAIN pull_request_files[r].list[1]
        /\ "patch" \notin DOMAIN pull_request_files[r].list[2]
        /\ prompt[r] = DescribedPrompt(r)
        /\ ~Contains(prompt[r], pull_request_files[r].list[2].filename)
        /\ Contains(prompt[r], "Changes in file " \o pull_request_files[r].list[1].filename)

\* The run's call to the endpoint came back with a non-success status
FailedCall(r, op) == \E i \in CallsTo(r, op) : ~Succeeded(calls[r][i])

\* C14: every host operation answers a non-success status with its failure result and
\* never retries: a failed page of files makes get_pull_request_files return 1 (not
\* the entries of the earlier pages) and is the last page requested, and no endpoint or
\* page is requested twice in one run.
C14_FailureResultNoRetry ==
    \A r \in Runs :
        /\ FailedCall(r, "GET pull") => pull_request_data[r] = PyNone
        /\ FailedCall(r, "GET comments") =>
              (already_result[r] = PyInt(1) /\ comments_data[r] = PyNone)
        /\ FailedCall(r, "GET commits") => commit_messages[r] = PyInt(1)
        /\ FailedCall(r, "POST comment") => write_result[r] = PyInt(1)
        /\ \A k \in DOMAIN FilesCalls(r) :
              FilesCalls(r)[k].status # codes_ok =>
                  /\ pull_request_files[r] = PyInt(1)
                  /\ k = Len(FilesCalls(r))
                  /\ pc[r] # "get_pull_request_files"
        /\ \A i, j \in DOMAIN calls[r] :
              (calls[r][i].op = calls[r][j].op /\ calls[r][i].page = calls[r][j].page)
                  => i = j

C14_Witness ==
    \E r \in Runs :
        /\ Len(FilesCalls(r)) = 2
        /\ FilesCalls(r)[1].status = codes_ok
        /\ HostFilesPage(1) # <<>>
        /\ FilesCalls(r)[2].status # codes_ok
        /\ pull_request_files[r] = PyInt(1)
        /\ FailedCall(r, "GET commits")

\* The place of an endpoint in the order main calls them
CallRank(op) ==
    CASE op = "GET pull" -> 1
      [] op = "GET comments" -> 2
      [] op = "GET commits" -> 3
      [] op = "GET files" -> 4
      [] op = "openai" -> 5
      [] op = "POST comment" -> 6

\* C15: the calls of a run come one after the other in the order pull request, comments,
\* commits, pages of files, generation, post; the comments are fetched (and the check on
\* them has returned) before the generation backend is called, and the post comes only
\* after the generation call has returned its text.
C15_CallsInFixedOrder ==
    \A r \in Runs :
        /\ \A i, j \in DOMAIN calls[r] :
              i < j =>
                  \/ CallRank(calls[r][i].op) < CallRank(calls[r][j].op)
                  \/ /\ calls[r][i].op = "GET files"
                     /\ calls[r][j].op = "GET files"
                     /\ calls[r][i].page < calls[r][j].page
        /\ calls[r] # <<>> => calls[r][1].op = "GET pull"
        /\ \A j \in DOMAIN calls[r] :
              j > 1 => CallRank(calls[r][j].op) <= CallRank(calls[r][j - 1].op) + 1
        /\ CallsTo(r, "openai") # {} =>
              /\ CallsTo(r, "GET comments") # {}
              /\ (IsList(comments_data[r]) \/ already_result[r] = PyInt(1))
        /\ CallsTo(r, "POST comment") # {} =>
              /\ \E i \in CallsTo(r, "openai") : Succeeded(calls[r][i])
              /\ openai_response[r] \in GeneratedTexts

C15_Witness ==
    \E r \in Runs :
        /\ Len(calls[r]) = 8
        /\ calls[r][1].op = "GET pull"
        /\ calls[r][2].op = "GET comments"
        /\ calls[r][3].op = "GET commits"
        /\ calls[r][4].op = "GET files"
        /\ calls[r][6].op = "GET files"
        /\ calls[r][7].op = "openai"
        /\ calls[r][8].op = "POST comment"

\* The run's comment was created on the pull request
Published(r) == \E i \in CallsTo(r, "POST comment") : Succeeded(calls[r][i])

SentinelComments == {i \in DOMAIN comments : HasTitle(comments[i])}

\* C16: with overlapping runs two sentinel comments can arise, but only when each
\* publishing run made its check before the other published: a run whose check came
\* after another run's publish (it fetched the sentinel comment) does not publish.
C16_DuplicateOnlyFromRace ==
    Cardinality(SentinelComments) >= 2 =>
        \A r \in Runs : Published(r) => ~FetchedSentinel(r)

\* Both runs checked before either published, and both published
C16_RaceWitness ==
    /\ Cardinality(SentinelComments) = 2
    /\ \A r \in 1..2 : Published(r) /\ IsList(comments_data[r]) /\ ~FetchedSentinel(r)

\* C17: in any run, whatever fails or is refused on the way, the generation backend is
\* called at most once and the comment POST is issued at most once.
C17_AtMostOneGenerationOnePost ==
    \A r \in Runs :
        /\ Cardinality(CallsTo(r, "openai")) <= 1
        /\ Cardinality(CallsTo(r, "POST comment")) <= 1

C17_Witness ==
    \E r \in Runs :
        /\ pc[r] = "done"
        /\ FailedCall(r, "GET comments")
        /\ FailedCall(r, "GET commits")
        /\ Cardinality(CallsTo(r, "openai")) = 1
        /\ Cardinality(CallsTo(r, "POST comment")) = 1
        /\ FailedCall(r, "POST comment")

\* C18: the pull request (title, body), its commits and its files are never changed;
\* the comment list changes only in the step in which a run's POST is answered 201, and
\* then by that run's body appended at its end.  A run that ends before that step,
\* and every fetch, leaves the comment list as it was.
C18_OnlyPublishChangesHost ==
    [][ /\ hostPR' = hostPR
        /\ hostCommits' = hostCommits
        /\ hostFileCount' = hostFileCount
        /\ comments' # comments =>
              \E r \in Runs :
                  /\ pc[r] = "write_description_as_comment"
                  /\ pc'[r] = "done"
                  /\ calls'[r] = Append(calls[r], Call("POST comment", 0, codes_created))
                  /\ comments' = Append(comments, generated_pr_description'[r])
                  /\ HasTitle(generated_pr_description'[r])
      ]_vars

C18_Witness ==
    \E r \in Runs :
        /\ Published(r)
        /\ hostPR = pull_request_data[r].dict
        /\ comments_data[r] = PyList(<<>>)
        /\ comments = <<generated_pr_description[r]>>

\* C19: the check returns 1 when the comments fetch fails and 1 when a comment holds
\* the sentinel title, and returns no value (None) otherwise: the two cases give the
\* same result.
C19_SameResultForFailureAndFound ==
    \A r \in Runs :
        CallsTo(r, "GET comments") # {} =>
            /\ FailedCall(r, "GET comments") => already_result[r] = PyInt(1)
            /\ FetchedSentinel(r) => already_result[r] = PyInt(1)
            /\ (~FailedCall(r, "GET comments") /\ ~FetchedSentinel(r))
                  => already_result[r] = PyNone

C19_Witness ==
    \E r \in Runs :
        /\ FailedCall(r, "GET comments")
        /\ comments = <<>>
        /\ already_result[r] = PyInt(1)

====
